---- MODULE Spec2Model ----
(***************************************************************************)
(* Italian Jokes MCP: the tool surface (server.py) and the HTTP surface    *)
(* (http_server.py) as one state machine.  One inbound request is handled  *)
(* at a time; `calls` is the log of ItalianJokesAPI.get_joke invocations   *)
(* made on behalf of the current request.                                  *)
(***************************************************************************)
EXTENDS Integers, Sequences, FiniteSets, TLC

\* ------------------------------------------------------------------ bounds
\* largest in-range count a request asks for
MaxCount == 4

\* ------------------------------------------------------- program constants
\* server.py:126 and http_server.py:96,235
MAX_BATCH == 10
\* http_server.py:183
MAX_SSE == 20
\* http_server.py:364
WS_CAP == 10

\* ------------------------------------------------------------ input values
\* Python's None for an absent optional argument
None == "<None>"

\* server.py:24-31
JokeSubtype == <<"All", "One-liner", "Observational", "Stereotype", "Wordplay", "Long">>

JokeSubtypeValues == {JokeSubtype[k] : k \in 1..Len(JokeSubtype)}

\* subtypes a caller may send: absent, empty, every member, one non-member
SubtypeInputs == {None, "", "Bogus"} \cup JokeSubtypeValues

\* counts a caller may send to the tool: below, inside and above 1..MAX_BATCH
CountInputs == (-1..MaxCount) \cup {MAX_BATCH + 1}

\* Python truthiness of an Optional[str]
Truthy(s) == s # None /\ s # ""

\* the test `subtype and subtype not in [e.value for e in JokeSubtype]`
InvalidSubtype(s) == Truthy(s) /\ s \notin JokeSubtypeValues

\* ------------------------------------------------------------ the upstream
\* what the k-th GET of a request may come back with: a JSON body (n > 0 is
\* joke n, and the k-th GET is served joke k; 0 is a body that lacks required
\* fields), or a RequestException
Responses(k) == {<<"json", k>>, <<"json", 0>>, <<"error", 0>>}

\* the decoded body of a JSON response
Body(n) ==
  IF n # 0 THEN [id |-> n, joke |-> n, type |-> "Italian", subtype |-> "Wordplay"]
           ELSE [id |-> 0, type |-> "Italian"]

\* a client that forwards every non-empty subtype, the sentinel included
ParamsForwardAll(subtype) ==
  IF Truthy(subtype) THEN {<<"subtype", subtype>>} ELSE {}

\* query parameters of the GET built by ItalianJokesAPI.get_joke
Params(subtype) ==
  IF Truthy(subtype) /\ subtype # "All" THEN {<<"subtype", subtype>>} ELSE {}

\* the log entry of one ItalianJokesAPI.get_joke invocation
Call(subtype, resp) == [subtype |-> subtype, params |-> Params(subtype), response |-> resp]

\* JokeResponse(**joke_data) followed by the reshaping into the public joke
Normalize(joke_data) ==
  [id |-> joke_data.id, type |-> joke_data.type, subtype |-> joke_data.subtype,
   text |-> joke_data.joke]

\* JokeResponse validation: all four fields are required
ValidBody(joke_data) == {"id", "joke", "type", "subtype"} \subseteq DOMAIN joke_data

\* get_joke + JokeResponse as every handler runs them inside its try block
Fetch(resp) ==
  IF resp[1] = "error"
    THEN [ok |-> FALSE, error |-> "Failed to fetch joke"]
    ELSE IF ValidBody(Body(resp[2]))
      THEN [joke |-> Normalize(Body(resp[2])), ok |-> TRUE]
      ELSE [ok |-> FALSE, error |-> "validation error for JokeResponse"]

\* ------------------------------------------------------------------- state
VARIABLES pc, handler, subtype, count, i, jokes, calls, out, result

vars == <<pc, handler, subtype, count, i, jokes, calls, out, result>>

NoResult == [pending |-> TRUE]

Init ==
  /\ pc = "idle"
  /\ handler = "none"
  /\ subtype = None
  /\ count = 0
  /\ i = 0
  /\ jokes = <<>>
  /\ calls = <<>>
  /\ out = <<>>
  /\ result = NoResult

\* a handler that runs to completion in one step
Completed(h, st, n, cs, res) ==
  /\ pc' = "idle"
  /\ handler' = h
  /\ subtype' = st
  /\ count' = n
  /\ i' = 0
  /\ jokes' = <<>>
  /\ calls' = cs
  /\ out' = <<>>
  /\ result' = res

\* a handler that enters its loop
Entered(h, st, n, p) ==
  /\ pc' = p
  /\ handler' = h
  /\ subtype' = st
  /\ count' = n
  /\ i' = 0
  /\ jokes' = <<>>
  /\ calls' = <<>>
  /\ out' = <<>>
  /\ result' = NoResult

\* -------------------------------------------------------------- tool surface
InvalidSubtypeToolError == <<"Invalid subtype. Available options:">> \o JokeSubtype

\* the body of get_italian_joke
ItalianJokeResult(st, resp) ==
  IF InvalidSubtype(st)
    THEN [error |-> InvalidSubtypeToolError]
    ELSE IF Fetch(resp).ok
      THEN [joke |-> Fetch(resp).joke, success |-> TRUE]
      ELSE [error |-> <<Fetch(resp).error>>, success |-> FALSE]

ItalianJokeCalls(st, resp) ==
  IF InvalidSubtype(st) THEN <<>> ELSE <<Call(st, resp)>>

get_italian_joke ==
  /\ pc = "idle"
  /\ \E st \in SubtypeInputs, resp \in Responses(1) :
       Completed("get_italian_joke", st, 1,
                 ItalianJokeCalls(st, resp), ItalianJokeResult(st, resp))

get_joke_by_category ==
  /\ pc = "idle"
  /\ \E category \in SubtypeInputs \ {None}, resp \in Responses(1) :
       Completed("get_joke_by_category", category, 1,
                 ItalianJokeCalls(category, resp), ItalianJokeResult(category, resp))

\* a range test that lets 0 through
CountRejectedBelowZero(n) == n < 0 \/ n > MAX_BATCH

\* a range test that lets MAX_BATCH + 1 through
CountRejectedLate(n) == n < 1 \/ n > MAX_BATCH + 1

\* the range test of the tool get_multiple_jokes
CountRejected(n) == n < 1 \/ n > MAX_BATCH

tool_get_multiple_jokes ==
  /\ pc = "idle"
  /\ \E n \in CountInputs, st \in SubtypeInputs :
       IF CountRejected(n)
         THEN Completed("tool_get_multiple_jokes", st, n, <<>>,
                        [error |-> <<"Count must be between 1 and 10">>, success |-> FALSE])
         ELSE Entered("tool_get_multiple_jokes", st, n, "tool_loop")

\* a loop that gives up at the first failed attempt
BatchAttemptStopOnFailure(p) ==
  /\ pc = p
  /\ i < count
  /\ \E resp \in Responses(Len(calls) + 1) :
       /\ calls' = Append(calls, Call(subtype, resp))
       /\ jokes' = IF Fetch(resp).ok THEN Append(jokes, Fetch(resp).joke) ELSE jokes
       /\ i' = IF Fetch(resp).ok THEN i + 1 ELSE count
  /\ UNCHANGED <<pc, handler, subtype, count, out, result>>

\* a loop that puts each new joke in front of the earlier ones
BatchAttemptPrepend(p) ==
  /\ pc = p
  /\ i < count
  /\ \E resp \in Responses(Len(calls) + 1) :
       /\ calls' = Append(calls, Call(subtype, resp))
       /\ jokes' = IF Fetch(resp).ok THEN <<Fetch(resp).joke>> \o jokes ELSE jokes
  /\ i' = i + 1
  /\ UNCHANGED <<pc, handler, subtype, count, out, result>>

\* one pass of `for i in range(count)`: a failed attempt is logged and skipped
BatchAttempt(p) ==
  /\ pc = p
  /\ i < count
  /\ \E resp \in Responses(Len(calls) + 1) :
       /\ calls' = Append(calls, Call(subtype, resp))
       /\ jokes' = IF Fetch(resp).ok THEN Append(jokes, Fetch(resp).joke) ELSE jokes
  /\ i' = i + 1
  /\ UNCHANGED <<pc, handler, subtype, count, out, result>>

BatchResult(js) == [count |-> Len(js), jokes |-> js, success |-> TRUE]

tool_loop_attempt ==
  /\ handler = "tool_get_multiple_jokes"
  /\ BatchAttempt("tool_loop")

tool_loop_return ==
  /\ pc = "tool_loop"
  /\ i >= count
  /\ pc' = "idle"
  /\ result' = BatchResult(jokes)
  /\ UNCHANGED <<handler, subtype, count, i, jokes, calls, out>>

list_joke_categories ==
  /\ pc = "idle"
  /\ Completed("list_joke_categories", None, 0, <<>>,
            [success |-> TRUE, categories |-> JokeSubtype])

\* outcomes of the connectivity probe: HTTP 200, another status, an exception
ProbeOutcomes == {"200", "other", "exception"}

ApiStatus(o) ==
  IF o = "200" THEN "healthy" ELSE IF o = "other" THEN "unhealthy" ELSE "unreachable"

health_check ==
  /\ pc = "idle"
  /\ \E o \in ProbeOutcomes :
       Completed("health_check", None, 0, <<>>,
                 [server |-> "healthy", api_status |-> ApiStatus(o),
                  timestamp |-> "loop-time", version |-> "1.0.0"])

\* -------------------------------------------------------------- REST surface
InvalidSubtypeDetail == <<"Invalid subtype. Available:">> \o JokeSubtype

\* str(e) of an HTTPException: "<status_code>: <detail>"
StrHTTPException(code, e) == <<code>> \o e

\* `except Exception as e: raise HTTPException(status_code=500, detail=str(e))`
\* around a body that raised HTTPException(400, detail)
ReraisedAs500(e) == [status |-> 500, detail |-> StrHTTPException("400:", e)]

\* the response of GET /api/joke
ApiJokeResponse(st, resp) ==
  IF InvalidSubtype(st)
    THEN ReraisedAs500(InvalidSubtypeDetail)
    ELSE IF Fetch(resp).ok
      THEN [status |-> 200, body |-> [joke |-> Fetch(resp).joke, success |-> TRUE]]
      ELSE [status |-> 500, detail |-> <<Fetch(resp).error>>]

api_joke ==
  /\ pc = "idle"
  /\ \E st \in SubtypeInputs, resp \in Responses(1) :
       Completed("api_joke", st, 1, ItalianJokeCalls(st, resp), ApiJokeResponse(st, resp))

\* Query(3, ge=1, le=10): the framework answers 422 before the handler runs
QueryRejected(n, lo, hi) == n < lo \/ n > hi

UnprocessableEntity == [status |-> 422, detail |-> <<"count out of range">>]

api_jokes ==
  /\ pc = "idle"
  /\ \E n \in CountInputs, st \in SubtypeInputs :
       IF QueryRejected(n, 1, MAX_BATCH)
         THEN Completed("api_jokes", st, n, <<>>, UnprocessableEntity)
         ELSE IF InvalidSubtype(st)
           THEN Completed("api_jokes", st, n, <<>>, ReraisedAs500(InvalidSubtypeDetail))
           ELSE Entered("api_jokes", st, n, "api_loop")

api_loop_attempt ==
  /\ handler = "api_jokes"
  /\ BatchAttempt("api_loop")

api_loop_return ==
  /\ pc = "api_loop"
  /\ i >= count
  /\ pc' = "idle"
  /\ result' = [status |-> 200, body |-> BatchResult(jokes)]
  /\ UNCHANGED <<handler, subtype, count, i, jokes, calls, out>>

\* --------------------------------------------------------------- SSE surface
\* counts a caller may send to GET /api/stream/jokes
StreamCountInputs == (0..MaxCount) \cup {MAX_SSE + 1}

BadRequest == [status |-> 400, detail |-> InvalidSubtypeDetail]

\* GET /api/stream/jokes: validation, then the generator is handed to the
\* EventSourceResponse
stream_jokes ==
  /\ pc = "idle"
  /\ \E n \in StreamCountInputs, st \in SubtypeInputs :
       IF QueryRejected(n, 1, MAX_SSE)
         THEN Completed("stream_jokes", st, n, <<>>, UnprocessableEntity)
         ELSE IF InvalidSubtype(st)
           THEN Completed("stream_jokes", st, n, <<>>, BadRequest)
           ELSE Entered("stream_jokes", st, n, "sse_attempt")

JokeEvent(k, n, j) == [joke |-> j, index |-> k, total |-> n]

ErrorEvent(k, n, e) == [error |-> <<e>>, index |-> k, total |-> n]

\* a generator that ends the stream at the first failed attempt
sse_attempt_abort ==
  /\ pc = "sse_attempt"
  /\ i < count
  /\ \E resp \in Responses(Len(calls) + 1) :
       /\ calls' = Append(calls, Call(subtype, resp))
       /\ IF Fetch(resp).ok
            THEN /\ out' = Append(out, JokeEvent(i + 1, count, Fetch(resp).joke))
                 /\ pc' = "sse_yield_joke"
                 /\ result' = result
            ELSE /\ out' = Append(out, ErrorEvent(i + 1, count, Fetch(resp).error))
                 /\ pc' = "idle"
                 /\ result' = [status |-> 200, stream |-> "complete"]
  /\ UNCHANGED <<handler, subtype, count, i, jokes>>

\* one pass of the generator's loop up to its yield: the joke event at
\* line 168, or the error event at line 179
sse_attempt ==
  /\ pc = "sse_attempt"
  /\ i < count
  /\ \E resp \in Responses(Len(calls) + 1) :
       /\ calls' = Append(calls, Call(subtype, resp))
       /\ IF Fetch(resp).ok
            THEN /\ out' = Append(out, JokeEvent(i + 1, count, Fetch(resp).joke))
                 /\ pc' = "sse_yield_joke"
            ELSE /\ out' = Append(out, ErrorEvent(i + 1, count, Fetch(resp).error))
                 /\ pc' = "sse_yield_error"
  /\ UNCHANGED <<handler, subtype, count, i, jokes, result>>

\* the consumer asks for the next event after a joke event
sse_resume_joke ==
  /\ pc = "sse_yield_joke"
  /\ IF i < count - 1
       THEN pc' = "sse_sleep" /\ i' = i
       ELSE pc' = "sse_attempt" /\ i' = i + 1
  /\ UNCHANGED <<handler, subtype, count, jokes, calls, out, result>>

\* asyncio.sleep(interval) returns
sse_wake ==
  /\ pc = "sse_sleep"
  /\ pc' = "sse_attempt"
  /\ i' = i + 1
  /\ UNCHANGED <<handler, subtype, count, jokes, calls, out, result>>

\* the consumer asks for the next event after an error event
sse_resume_error ==
  /\ pc = "sse_yield_error"
  /\ pc' = "sse_attempt"
  /\ i' = i + 1
  /\ UNCHANGED <<handler, subtype, count, jokes, calls, out, result>>

\* the loop is exhausted and the generator returns
sse_finish ==
  /\ pc = "sse_attempt"
  /\ i >= count
  /\ pc' = "idle"
  /\ result' = [status |-> 200, stream |-> "complete"]
  /\ UNCHANGED <<handler, subtype, count, i, jokes, calls, out>>

\* the client goes away while the generator is suspended: GeneratorExit or
\* CancelledError is not an Exception, so no handler of the generator runs
sse_cancel ==
  /\ pc \in {"sse_yield_joke", "sse_yield_error", "sse_sleep"}
  /\ pc' = "idle"
  /\ result' = [status |-> 200, stream |-> "cancelled"]
  /\ UNCHANGED <<handler, subtype, count, i, jokes, calls, out>>

\* ----------------------------------------------------------- chunked surface
\* GET /api/stream/chunked: validation, then the generator is handed to the
\* StreamingResponse
stream_chunked_jokes ==
  /\ pc = "idle"
  /\ \E n \in CountInputs, st \in SubtypeInputs :
       IF QueryRejected(n, 1, MAX_BATCH)
         THEN Completed("stream_chunked_jokes", st, n, <<>>, UnprocessableEntity)
         ELSE IF InvalidSubtype(st)
           THEN Completed("stream_chunked_jokes", st, n, <<>>, BadRequest)
           ELSE Entered("stream_chunked_jokes", st, n, "chunked_open")

\* the opening chunk
chunked_open ==
  /\ pc = "chunked_open"
  /\ pc' = "chunked_attempt"
  /\ out' = <<<<"open", 0>>>>
  /\ UNCHANGED <<handler, subtype, count, i, jokes, calls, result>>

\* the chunks one pass of the loop yields for a fetched joke
JokeChunks(k, j) == IF k > 0 THEN <<<<"comma", 0>>, <<"joke", j.id>>>> ELSE <<<<"joke", j.id>>>>

\* one pass of chunked_jokes_generator's loop
chunked_attempt ==
  /\ pc = "chunked_attempt"
  /\ i < count
  /\ \E resp \in Responses(Len(calls) + 1) :
       /\ calls' = Append(calls, Call(subtype, resp))
       /\ out' = IF Fetch(resp).ok THEN out \o JokeChunks(i, Fetch(resp).joke) ELSE out
  /\ i' = i + 1
  /\ UNCHANGED <<pc, handler, subtype, count, jokes, result>>

\* the closing chunk
chunked_finish ==
  /\ pc = "chunked_attempt"
  /\ i >= count
  /\ pc' = "idle"
  /\ out' = Append(out, <<"close", 0>>)
  /\ result' = [status |-> 200, stream |-> "complete"]
  /\ UNCHANGED <<handler, subtype, count, i, jokes, calls>>

\* --------------------------------------------------------- WebSocket surface
\* counts a stream_jokes command may carry
WSCountInputs == (-1..MaxCount) \cup {WS_CAP + 1}

\* a cap that is never applied
MinUncapped(a, b) == a

Min(a, b) == IF a < b THEN a ELSE b

\* websocket.accept()
ws_accept ==
  /\ pc = "idle"
  /\ pc' = "ws_receive"
  /\ handler' = "websocket_jokes"
  /\ subtype' = None
  /\ count' = 0
  /\ i' = 0
  /\ jokes' = <<>>
  /\ calls' = <<>>
  /\ out' = <<>>
  /\ result' = [session |-> "open"]

\* a received text that json.loads rejects, or that decodes to a value without
\* .get: the exception is not a WebSocketDisconnect and leaves the handler
ws_receive_bad ==
  /\ pc = "ws_receive"
  /\ \E h \in {"ws_not_json", "ws_non_object"} : handler' = h
  /\ result' = [session |-> "crashed"]
  /\ pc' = "idle"
  /\ calls' = <<>>
  /\ out' = <<>>
  /\ UNCHANGED <<subtype, count, i, jokes>>

\* command "get_joke" (also the default when the key is absent)
ws_get_joke ==
  /\ pc = "ws_receive"
  /\ \E st \in SubtypeInputs, resp \in Responses(1) :
       /\ subtype' = st
       /\ calls' = <<Call(st, resp)>>
       /\ out' = IF Fetch(resp).ok
                   THEN <<[joke |-> Fetch(resp).joke, success |-> TRUE]>>
                   ELSE <<[error |-> <<Fetch(resp).error>>, success |-> FALSE]>>
  /\ handler' = "ws_get_joke"
  /\ count' = 1
  /\ i' = 0
  /\ UNCHANGED <<pc, jokes, result>>

\* command "stream_jokes": a count that is not a number makes min() raise
\* inside the try block; otherwise the loop is entered
ws_stream_jokes ==
  /\ pc = "ws_receive"
  /\ \E st \in SubtypeInputs, n \in WSCountInputs, is_int \in BOOLEAN :
       /\ subtype' = st
       /\ count' = IF is_int THEN n ELSE 0
       /\ IF is_int
            THEN pc' = "ws_stream" /\ out' = <<>>
            ELSE /\ pc' = "ws_receive"
                 /\ out' = <<[error |-> <<"TypeError">>, success |-> FALSE]>>
  /\ handler' = "ws_stream_jokes"
  /\ calls' = <<>>
  /\ i' = 0
  /\ UNCHANGED <<jokes, result>>

\* any other command: nothing is sent
ws_other_command ==
  /\ pc = "ws_receive"
  /\ handler' = "ws_other_command"
  /\ calls' = <<>>
  /\ out' = <<>>
  /\ UNCHANGED <<pc, subtype, count, i, jokes, result>>

\* one pass of `for i in range(min(count, 10))`; the try block encloses the
\* whole loop, so a failed attempt sends one error message and ends the loop
ws_stream_attempt ==
  /\ pc = "ws_stream"
  /\ i < Min(count, WS_CAP)
  /\ \E resp \in Responses(Len(calls) + 1) :
       /\ calls' = Append(calls, Call(subtype, resp))
       /\ IF Fetch(resp).ok
            THEN /\ out' = Append(out, [joke |-> Fetch(resp).joke, success |-> TRUE,
                                        index |-> i + 1, total |-> count])
                 /\ pc' = "ws_sleep"
            ELSE /\ out' = Append(out, [error |-> <<Fetch(resp).error>>, success |-> FALSE])
                 /\ pc' = "ws_receive"
  /\ UNCHANGED <<handler, subtype, count, i, jokes, result>>

\* asyncio.sleep(1) returns
ws_wake ==
  /\ pc = "ws_sleep"
  /\ pc' = "ws_stream"
  /\ i' = i + 1
  /\ UNCHANGED <<handler, subtype, count, jokes, calls, out, result>>

\* the loop is exhausted: back to receive_text
ws_stream_end ==
  /\ pc = "ws_stream"
  /\ i >= Min(count, WS_CAP)
  /\ pc' = "ws_receive"
  /\ UNCHANGED <<handler, subtype, count, i, jokes, calls, out, result>>

\* receive_text raises WebSocketDisconnect
ws_disconnect ==
  /\ pc = "ws_receive"
  /\ pc' = "idle"
  /\ result' = [session |-> "closed"]
  /\ UNCHANGED <<handler, subtype, count, i, jokes, calls, out>>

Next ==
  \/ get_italian_joke
  \/ get_joke_by_category
  \/ tool_get_multiple_jokes
  \/ tool_loop_attempt
  \/ tool_loop_return
  \/ list_joke_categories
  \/ health_check
  \/ api_joke
  \/ api_jokes
  \/ api_loop_attempt
  \/ api_loop_return
  \/ stream_jokes
  \/ sse_attempt
  \/ sse_resume_joke
  \/ sse_wake
  \/ sse_resume_error
  \/ sse_finish
  \/ sse_cancel
  \/ stream_chunked_jokes
  \/ chunked_open
  \/ chunked_attempt
  \/ chunked_finish
  \/ ws_accept
  \/ ws_receive_bad
  \/ ws_get_joke
  \/ ws_stream_jokes
  \/ ws_other_command
  \/ ws_stream_attempt
  \/ ws_wake
  \/ ws_stream_end
  \/ ws_disconnect

Spec == Init /\ [][Next]_vars

\* the consumer of an event stream keeps pulling, a sleep ends, a GET returns
\* within its timeout: every step of a running generator is eventually taken
FairSpec ==
  /\ Spec
  /\ WF_vars(sse_attempt)
  /\ WF_vars(sse_resume_joke)
  /\ WF_vars(sse_wake)
  /\ WF_vars(sse_resume_error)
  /\ WF_vars(sse_finish)

\* ------------------------------------------------ concurrent SSE streams
\* Several GET /api/stream/jokes requests served by one event loop. Each
\* request has its own joke_stream_generator object, so pc, count, i, calls,
\* out and result hold one component per stream here; the generators share
\* nothing but the stateless ItalianJokesAPI.
MaxStreamCount == 2

\* the claim relates one stream to any other, and the generators share no
\* state: a pair of requests shows every interaction between streams
Streams == {1, 2}

StreamsInit ==
  /\ pc = [s \in Streams |-> "idle"]
  /\ handler = "stream_jokes"
  /\ subtype = None
  /\ count = [s \in Streams |-> 0]
  /\ i = [s \in Streams |-> 0]
  /\ jokes = <<>>
  /\ calls = [s \in Streams |-> <<>>]
  /\ out = [s \in Streams |-> <<>>]
  /\ result = [s \in Streams |-> NoResult]

\* request s arrives with a count the endpoint accepts and its generator is
\* handed to the EventSourceResponse
stream_open(s) ==
  /\ pc[s] = "idle"
  /\ result[s] = NoResult
  /\ \E n \in 1..MaxStreamCount :
       /\ ~QueryRejected(n, 1, MAX_SSE)
       /\ count' = [count EXCEPT ![s] = n]
  /\ pc' = [pc EXCEPT ![s] = "sse_attempt"]
  /\ UNCHANGED <<handler, subtype, i, jokes, calls, out, result>>

\* one pass of generator s up to its yield
generator_attempt(s) ==
  /\ pc[s] = "sse_attempt"
  /\ i[s] < count[s]
  /\ \E resp \in Responses(Len(calls[s]) + 1) :
       /\ calls' = [calls EXCEPT ![s] = Append(@, Call(subtype, resp))]
       /\ IF Fetch(resp).ok
            THEN /\ out' = [out EXCEPT ![s] =
                              Append(@, JokeEvent(i[s] + 1, count[s], Fetch(resp).joke))]
                 /\ pc' = [pc EXCEPT ![s] = "sse_yield_joke"]
            ELSE /\ out' = [out EXCEPT ![s] =
                              Append(@, ErrorEvent(i[s] + 1, count[s], Fetch(resp).error))]
                 /\ pc' = [pc EXCEPT ![s] = "sse_yield_error"]
  /\ UNCHANGED <<handler, subtype, count, i, jokes, result>>

\* the consumer of stream s asks for the next event after a joke event
generator_resume_joke(s) ==
  /\ pc[s] = "sse_yield_joke"
  /\ IF i[s] < count[s] - 1
       THEN pc' = [pc EXCEPT ![s] = "sse_sleep"] /\ i' = i
       ELSE pc' = [pc EXCEPT ![s] = "sse_attempt"] /\ i' = [i EXCEPT ![s] = @ + 1]
  /\ UNCHANGED <<handler, subtype, count, jokes, calls, out, result>>

\* asyncio.sleep(interval) of generator s returns
generator_wake(s) ==
  /\ pc[s] = "sse_sleep"
  /\ pc' = [pc EXCEPT ![s] = "sse_attempt"]
  /\ i' = [i EXCEPT ![s] = @ + 1]
  /\ UNCHANGED <<handler, subtype, count, jokes, calls, out, result>>

\* the consumer of stream s asks for the next event after an error event
generator_resume_error(s) ==
  /\ pc[s] = "sse_yield_error"
  /\ pc' = [pc EXCEPT ![s] = "sse_attempt"]
  /\ i' = [i EXCEPT ![s] = @ + 1]
  /\ UNCHANGED <<handler, subtype, count, jokes, calls, out, result>>

\* the loop of generator s is exhausted and it returns
generator_finish(s) ==
  /\ pc[s] = "sse_attempt"
  /\ i[s] >= count[s]
  /\ pc' = [pc EXCEPT ![s] = "idle"]
  /\ result' = [result EXCEPT ![s] = [status |-> 200, stream |-> "complete"]]
  /\ UNCHANGED <<handler, subtype, count, i, jokes, calls, out>>

\* a detached consumer whose generator is left to run on
generator_cancel_orphan(s) ==
  /\ pc[s] \in {"sse_yield_joke", "sse_yield_error", "sse_sleep"}
  /\ result[s] = NoResult
  /\ result' = [result EXCEPT ![s] = [status |-> 200, stream |-> "cancelled"]]
  /\ UNCHANGED <<pc, handler, subtype, count, i, jokes, calls, out>>

\* the client of stream s goes away while generator s is suspended at a yield
\* or in its sleep: the exception is thrown into that generator only, and no
\* handler of it runs
generator_cancel(s) ==
  /\ pc[s] \in {"sse_yield_joke", "sse_yield_error", "sse_sleep"}
  /\ pc' = [pc EXCEPT ![s] = "idle"]
  /\ result' = [result EXCEPT ![s] = [status |-> 200, stream |-> "cancelled"]]
  /\ UNCHANGED <<handler, subtype, count, i, jokes, calls, out>>

\* a step of a running generator
generator_step(s) ==
  \/ generator_attempt(s)
  \/ generator_resume_joke(s)
  \/ generator_wake(s)
  \/ generator_resume_error(s)
  \/ generator_finish(s)

StreamsNext ==
  \E s \in Streams :
    \/ stream_open(s)
    \/ generator_step(s)
    \/ generator_cancel(s)

\* the event loop runs every ready generator: a stream whose consumer keeps
\* pulling, whose sleep ends or whose GET returns takes its next step
StreamsSpec ==
  /\ StreamsInit
  /\ [][StreamsNext]_vars
  /\ \A s \in Streams : WF_vars(generator_step(s))

\* ------------------------------------------------------------------ claims
\* handlers that take a subtype from the caller
SubtypeHandlers ==
  {"get_italian_joke", "get_joke_by_category", "tool_get_multiple_jokes", "api_joke",
   "api_jokes", "stream_jokes", "stream_chunked_jokes", "ws_get_joke", "ws_stream_jokes"}

\* C1: on every inbound surface, a request whose subtype is a non-empty string
\* outside JokeSubtype never causes a call of ItalianJokesAPI.get_joke
C1_InvalidSubtypeNeverReachesUpstream ==
  (handler \in SubtypeHandlers /\ InvalidSubtype(subtype)) => calls = <<>>

\* C2: on /api/joke and /api/jokes an unrecognized subtype ends in a 400
\* response whose detail lists the valid subtypes, not in a 500
C2_InvalidSubtypeIsClientError ==
  (/\ pc = "idle"
   /\ handler \in {"api_joke", "api_jokes"}
   /\ InvalidSubtype(subtype)
   /\ ~QueryRejected(count, 1, MAX_BATCH))
    => (result.status = 400 /\ result.detail = InvalidSubtypeDetail)

ToolHandlers ==
  {"get_italian_joke", "get_joke_by_category", "tool_get_multiple_jokes",
   "list_joke_categories", "health_check"}

\* C3: every tool returns a result with a boolean success field and either a
\* payload or an error string
C3_ToolResultCarriesSuccess ==
  (pc = "idle" /\ handler \in ToolHandlers)
    => /\ "success" \in DOMAIN result
       /\ result.success \in BOOLEAN
       /\ (result.success => DOMAIN result \ {"success"} # {})
       /\ (~result.success => "error" \in DOMAIN result)

\* a batch request whose count and subtype pass the handler's validation
BatchAccepted ==
  /\ handler \in {"tool_get_multiple_jokes", "api_jokes"}
  /\ ~CountRejected(count)
  /\ handler = "api_jokes" => ~InvalidSubtype(subtype)

BatchReturned == pc = "idle" /\ BatchAccepted

\* the batch a returned batch request carries
ReturnedBatch == IF handler = "api_jokes" THEN result.body ELSE result

\* C4: the batch operation makes exactly count upstream calls, one per pass of
\* its loop, whatever the attempts come back with: no retry, no early stop
C4_ExactlyCountCalls ==
  /\ pc \in {"tool_loop", "api_loop"} => (Len(calls) = i /\ i <= count)
  /\ BatchReturned => Len(calls) = count

\* a returned batch of three attempts, two of which failed
C4_Witness ==
  /\ BatchReturned
  /\ count = 3
  /\ Len(calls) = 3
  /\ Len(ReturnedBatch.jokes) = 1

\* the jokes of the successful calls of a log, in call order
Fetched(cs) ==
  LET good == SelectSeq(cs, LAMBDA c : Fetch(c.response).ok)
  IN  [k \in 1..Len(good) |-> Fetch(good[k].response).joke]

\* C5: the batch operation returns a success result whose jokes are exactly the
\* successfully fetched jokes in fetch order: count jokes when every attempt
\* succeeds, none (and still success) when every attempt fails
C5_BatchIsFetchedInOrder ==
  BatchReturned =>
    /\ ReturnedBatch.success = TRUE
    /\ ReturnedBatch.jokes = Fetched(calls)
    /\ ReturnedBatch.count = Len(ReturnedBatch.jokes)
    /\ (\A k \in 1..Len(calls) : Fetch(calls[k].response).ok)
         => Len(ReturnedBatch.jokes) = count
    /\ (\A k \in 1..Len(calls) : ~Fetch(calls[k].response).ok)
         => ReturnedBatch.jokes = <<>>

\* a returned batch of three attempts whose middle attempt failed
C5_Witness ==
  /\ BatchReturned
  /\ count = 3
  /\ Len(calls) = 3
  /\ Fetch(calls[1].response).ok
  /\ ~Fetch(calls[2].response).ok
  /\ Fetch(calls[3].response).ok
  /\ ReturnedBatch.jokes = <<Fetch(calls[1].response).joke, Fetch(calls[3].response).joke>>

BatchHandled == pc = "idle" /\ handler \in {"tool_get_multiple_jokes", "api_jokes"}

\* C6 as stated: a batch request with count = 0 yields an empty batch with
\* zero upstream calls and no error
C6_ZeroCountIsEmptyBatch ==
  (BatchHandled /\ count = 0) =>
    /\ calls = <<>>
    /\ IF handler = "api_jokes"
         THEN result.status = 200
         ELSE result.success = TRUE /\ result.jokes = <<>>

\* C6 amended: a batch request with count = 0 makes zero upstream calls and is
\* rejected as out of range: an error result from the tool, a 422 from REST
C6_ZeroCountIsRejected ==
  (BatchHandled /\ count = 0) =>
    /\ calls = <<>>
    /\ i = 0
    /\ IF handler = "api_jokes"
         THEN result = UnprocessableEntity
         ELSE result.success = FALSE /\ "error" \in DOMAIN result

\* the tool has answered a request with count = 0
C6_Witness ==
  /\ BatchHandled
  /\ handler = "tool_get_multiple_jokes"
  /\ count = 0
  /\ result.success = FALSE

\* C7: the tool get_multiple_jokes rejects a count above 10 with an error
\* result before any I/O: zero upstream calls
C7_CountAboveMaxRejected ==
  (handler = "tool_get_multiple_jokes" /\ count > MAX_BATCH) =>
    /\ pc = "idle"
    /\ calls = <<>>
    /\ result.success = FALSE
    /\ "error" \in DOMAIN result

\* the tool has answered a request with count = 11
C7_Witness ==
  /\ pc = "idle"
  /\ handler = "tool_get_multiple_jokes"
  /\ count = MAX_BATCH + 1
  /\ result.success = FALSE

\* C8: the GET of a get_joke call carries no subtype parameter when the subtype
\* is absent, empty or "All", and exactly the given value otherwise
C8_SentinelNeverForwarded ==
  \A k \in 1..Len(calls) :
    IF calls[k].subtype \in {None, "", "All"}
      THEN calls[k].params = {}
      ELSE calls[k].params = {<<"subtype", calls[k].subtype>>}

\* a request has made a call with the sentinel
C8_Witness ==
  /\ Len(calls) = 2
  /\ calls[2].subtype = "All"
  /\ calls[2].params = {}

InSSE == pc \in {"sse_attempt", "sse_yield_joke", "sse_yield_error", "sse_sleep"}

SSEClosed(how) ==
  /\ pc = "idle"
  /\ handler = "stream_jokes"
  /\ "stream" \in DOMAIN result
  /\ result.stream = how

\* event k of the stream is what attempt k produced
EventOfAttempt(k) ==
  IF Fetch(calls[k].response).ok
    THEN out[k] = JokeEvent(k, count, Fetch(calls[k].response).joke)
    ELSE out[k] = ErrorEvent(k, count, Fetch(calls[k].response).error)

SSECompleteExact ==
  SSEClosed("complete") =>
    /\ Len(out) = count
    /\ Len(calls) = count
    /\ \A k \in 1..count : EventOfAttempt(k)

\* C9: an SSE stream of count items that is not cancelled terminates, having
\* emitted exactly count events, one per fetch attempt in attempt order, each
\* a joke event or an error event
C9_SSEEmitsCountEvents ==
  /\ []SSECompleteExact
  /\ InSSE ~> (SSEClosed("complete") \/ SSEClosed("cancelled"))

\* a completed stream of three events whose every attempt failed
C9_Witness ==
  /\ SSEClosed("complete")
  /\ count = 3
  /\ Len(out) = 3
  /\ \A k \in 1..3 : ~Fetch(calls[k].response).ok

\* the number of attempts a stream request is entitled to
StreamBudget == IF handler = "ws_stream_jokes" THEN Min(count, WS_CAP) ELSE count

\* a stream request that ended without being cancelled
StreamEnded ==
  \/ SSEClosed("complete")
  \/ handler = "ws_stream_jokes" /\ pc = "ws_receive" /\ count > 0

\* C10: on SSE and on the WebSocket command stream_jokes a failed attempt is
\* surfaced as a failure item and the remaining attempts are still made
C10_StreamSurvivesFailure ==
  StreamEnded =>
    /\ Len(calls) = StreamBudget
    /\ Len(out) = StreamBudget

\* the WebSocket command stream_jokes is being, or was last, handled
InWSStream == handler = "ws_stream_jokes"

\* C11: whatever count a stream_jokes command carries, the handler makes at
\* most 10 upstream calls and sends at most 10 joke messages for it, and the
\* 1-second sleep lies between consecutive items: every joke message is
\* followed by the sleep, and a later pass of the loop starts only from it
C11_WSStreamCapped ==
  /\ [](InWSStream => (Len(calls) <= WS_CAP /\ Len(out) <= WS_CAP))
  /\ [][(InWSStream /\ pc = "ws_stream" /\ Len(out') > Len(out) /\ out'[Len(out')].success)
          => pc' = "ws_sleep"]_vars
  /\ [][(InWSStream /\ pc # "ws_stream" /\ pc' = "ws_stream" /\ i' > 0)
          => pc = "ws_sleep"]_vars

\* a stream_jokes command asking for 11 jokes has ended after 10 calls and 10
\* joke messages
C11_Witness ==
  /\ InWSStream
  /\ pc = "ws_receive"
  /\ count = WS_CAP + 1
  /\ Len(calls) = WS_CAP
  /\ Len(out) = WS_CAP
  /\ out[WS_CAP].success

\* C12: whatever text arrives on /ws/jokes (text that is not JSON, a JSON
\* value that is not an object, a command whose upstream call fails), the
\* handler answers with an error or success message and waits for the next
\* message; the session ends only when the client disconnects
C12_WSSessionSurvivesEveryMessage ==
  /\ "session" \in DOMAIN result => result.session \in {"open", "closed"}
  /\ handler \in {"ws_not_json", "ws_non_object", "ws_get_joke"} =>
       /\ pc = "ws_receive" \/ result.session = "closed"
       /\ Len(out) = 1
       /\ out[1].success \in BOOLEAN

\* a pass of a paced loop other than the first begins
NextPassBegins ==
  \/ pc # "sse_attempt" /\ pc' = "sse_attempt" /\ 0 < i' /\ i' < count
  \/ pc # "ws_stream" /\ pc' = "ws_stream" /\ 0 < i' /\ i' < Min(count, WS_CAP)

\* a pacing delay begins after the final item of a paced loop
DelayAfterFinalItem ==
  \/ pc # "sse_sleep" /\ pc' = "sse_sleep" /\ i >= count - 1
  \/ pc # "ws_sleep" /\ pc' = "ws_sleep" /\ i >= Min(count, WS_CAP) - 1

\* C13: in a paced stream (SSE with its interval, WebSocket stream_jokes with
\* its 1-second sleep) every item but the final one, joke or failure, is
\* followed by the pacing delay before the next attempt begins, and no delay
\* follows the final item
C13_DelayBetweenItemsOnly ==
  /\ [][NextPassBegins => pc \in {"sse_sleep", "ws_sleep"}]_vars
  /\ [][~DelayAfterFinalItem]_vars

\* the consumer of stream s has detached
StreamCancelled(s) == "stream" \in DOMAIN result[s] /\ result[s].stream = "cancelled"

\* stream s has been opened and its generator has not ended
StreamRunning(s) == pc[s] # "idle"

\* this step detaches the consumer of stream s
Detaches(s) == ~StreamCancelled(s) /\ StreamCancelled(s)'

\* C14: a consumer detaches only while its generator is suspended at an
\* emission or in the pacing delay; from then on that stream makes no further
\* fetch attempt (its attempts stay the k made for the k items emitted); the
\* detaching step leaves every other stream as it was, and every other
\* running stream still runs to its own end
C14_CancelStopsOnlyItsOwnStream ==
  /\ [][\A s \in Streams : StreamCancelled(s) =>
          /\ pc'[s] = "idle"
          /\ calls'[s] = calls[s]
          /\ out'[s] = out[s]
          /\ Len(calls[s]) = Len(out[s])]_vars
  /\ [][\A s \in Streams : Detaches(s) =>
          /\ pc[s] \in {"sse_yield_joke", "sse_yield_error", "sse_sleep"}
          /\ calls'[s] = calls[s]
          /\ \A t \in Streams \ {s} :
               /\ pc'[t] = pc[t]
               /\ i'[t] = i[t]
               /\ calls'[t] = calls[t]
               /\ out'[t] = out[t]
               /\ result'[t] = result[t]]_vars
  /\ \A t \in Streams : StreamRunning(t) ~> ~StreamRunning(t)
  /\ [](\A t \in Streams :
          ("stream" \in DOMAIN result[t] /\ result[t].stream = "complete") =>
            Len(calls[t]) = count[t])

\* stream 1 was detached in the pacing delay after the first of its two
\* items, and stream 2 has gone on to emit its second item
C14_Witness ==
  /\ StreamCancelled(1)
  /\ count[1] = 2
  /\ Len(calls[1]) = 1
  /\ Fetch(calls[1][1].response).ok
  /\ pc[2] = "sse_yield_joke"
  /\ Len(out[2]) = 2

\* a chunked response has been delivered in full
ChunkedComplete ==
  /\ handler = "stream_chunked_jokes"
  /\ pc = "idle"
  /\ "stream" \in DOMAIN result
  /\ result.stream = "complete"

\* the chunks between the opening and the closing chunk
ArrayChunks == SubSeq(out, 2, Len(out) - 1)

IsJokeChunk(c) == c[1] = "joke"

\* the chunks are the elements of a JSON array: empty, or joke chunks with one
\* comma chunk between each two
WellFormedArray(m) ==
  /\ Len(m) = 0 \/ Len(m) % 2 = 1
  /\ \A k \in 1..Len(m) : m[k][1] = (IF k % 2 = 1 THEN "joke" ELSE "comma")

\* C15: the chunks of a delivered chunked response concatenate to one
\* well-formed JSON object: the opening chunk, the successful jokes in fetch
\* order with a comma only between two joke elements, the closing chunk
C15_ChunkedBodyIsWellFormed ==
  ChunkedComplete =>
    /\ out[1][1] = "open"
    /\ out[Len(out)][1] = "close"
    /\ WellFormedArray(ArrayChunks)
    /\ LET js == SelectSeq(ArrayChunks, IsJokeChunk)
       IN /\ Len(js) = Len(Fetched(calls))
          /\ \A k \in 1..Len(js) : js[k][2] = Fetched(calls)[k].id

====
